---------------------------- MODULE Spec2Model ----------------------------
(***************************************************************************)
(* Model of bankroll/model/instrument.py: the instrument value types       *)
(* (Stock, Bond, Option, FutureOption, Future, Forex), their validating    *)
(* constructors, the dataclass-generated equality, the total_ordering      *)
(* comparison operators and attribute assignment / deletion.               *)
(*                                                                         *)
(* Text is a sequence of one-character strings.  A Decimal is the triple   *)
(* (sign, coefficient digits, exponent) of Python's decimal module, with   *)
(* the coefficient kept as a digit sequence so that 28-digit arithmetic    *)
(* needs no large integers.                                                *)
(***************************************************************************)
EXTENDS Integers, Sequences, FiniteSets, TLC

VARIABLES inst, last

vars == <<inst, last>>

---------------------------------------------------------------------------
(* Text *)

\* The characters that occur in the inputs, in code-point order.
CharTable ==
    << "\n", " ", "0", "1", "2", "3", "4", "5", "6", "7", "8", "9",
       "A", "B", "C", "D", "E", "F", "G", "L", "P", "R", "S", "U", "X", "Y",
       "Z", "a" >>

\* Position of a character in code-point order (str comparison is by code point).
Ord(c) == CHOOSE i \in 1..Len(CharTable) : CharTable[i] = c

IsDigit(c) == c \in {"0", "1", "2", "3", "4", "5", "6", "7", "8", "9"}

IsUpper(c) == Ord(c) >= Ord("A") /\ Ord(c) <= Ord("Z")

\* Python's str.__lt__: lexicographic by code point, a proper prefix is smaller.
StrLess(s, t) ==
    \E i \in 1..(Len(t)) :
        /\ i <= Len(s) + 1
        /\ \A j \in 1..(i - 1) : s[j] = t[j]
        /\ \/ i = Len(s) + 1
           \/ Ord(s[i]) < Ord(t[i])

DigitChar(n) == << "0", "1", "2", "3", "4", "5", "6", "7", "8", "9" >>[n + 1]

Spaces(n) == [i \in 1..n |-> " "]

Zeros(n) == [i \in 1..n |-> 0]

\* format(s, '6'): left-justified in a field of minimum width 6, never cut.
FormatWidth(s, w) == IF Len(s) >= w THEN s ELSE s \o Spaces(w - Len(s))

---------------------------------------------------------------------------
(* Decimal *)

Dec(sign, digits, exp) ==
    [special |-> "finite", sign |-> sign, int |-> digits, exp |-> exp]

DecInfinity(sign) ==
    [special |-> "Infinity", sign |-> sign, int |-> <<0>>, exp |-> 0]

DecNaN == [special |-> "NaN", sign |-> 0, int |-> <<0>>, exp |-> 0]

\* The default context's precision (decimal.getcontext().prec).
DecimalPrec == 28

is_finite(d) == d.special = "finite"

\* "not self" of a finite Decimal: the coefficient is 0.
DecIsZero(d) == \A i \in 1..Len(d.int) : d.int[i] = 0

\* d <= 0 for a finite d.
DecLeZero(d) == d.sign = 1 \/ DecIsZero(d)

\* str(int(coeff) + 1) on a digit sequence.
RECURSIVE IncDigits(_)
IncDigits(s) ==
    IF s = <<>> THEN <<1>>
    ELSE IF s[Len(s)] < 9
         THEN [s EXCEPT ![Len(s)] = @ + 1]
         ELSE Append(IncDigits(SubSeq(s, 1, Len(s) - 1)), 0)

\* _all_zeros(int, prec): every digit after the first prec ones is 0.
AllZeros(digits, prec) == \A i \in (prec + 1)..Len(digits) : digits[i] = 0

\* _exact_half(int, prec): the digits after the first prec ones are 5 0 0 ...
ExactHalf(digits, prec) ==
    /\ prec + 1 <= Len(digits)
    /\ digits[prec + 1] = 5
    /\ AllZeros(digits, prec + 1)

RoundHalfUp(digits, prec) ==
    IF digits[prec + 1] >= 5 THEN 1
    ELSE IF AllZeros(digits, prec) THEN 0
    ELSE -1

\* ROUND_HALF_EVEN on the coefficient kept to prec digits:
\* 1 rounds away from zero, 0 is exact, -1 truncates.
RoundHalfEven(digits, prec) ==
    IF ExactHalf(digits, prec) /\ (prec = 0 \/ digits[prec] % 2 = 0)
    THEN -1
    ELSE RoundHalfUp(digits, prec)

\* Decimal._rescale(exp, ROUND_HALF_EVEN) of a finite non-zero Decimal.
Rescale(d, exp) ==
    IF d.exp >= exp
    THEN Dec(d.sign, d.int \o Zeros(d.exp - exp), exp)
    ELSE LET digits0 == Len(d.int) + d.exp - exp
             src     == IF digits0 < 0 THEN <<1>> ELSE d.int
             digits  == IF digits0 < 0 THEN 0 ELSE digits0
             changed == RoundHalfEven(src, digits)
             kept    == IF digits = 0 THEN <<0>> ELSE SubSeq(src, 1, digits)
             coeff   == IF changed = 1 THEN IncDigits(kept) ELSE kept
         IN  Dec(d.sign, coeff, exp)

\* Decimal._fix(context): round a finite non-zero result to the context
\* precision (the exponent limits are far from every value used here).
Fix(d) ==
    IF Len(d.int) <= DecimalPrec
    THEN d
    ELSE LET exp_min == Len(d.int) + d.exp - DecimalPrec
             changed == RoundHalfEven(d.int, DecimalPrec)
             kept    == SubSeq(d.int, 1, DecimalPrec)
             inc     == IncDigits(kept)
         IN  IF changed = 1
             THEN IF Len(inc) > DecimalPrec
                  THEN Dec(d.sign, SubSeq(inc, 1, Len(inc) - 1), exp_min + 1)
                  ELSE Dec(d.sign, inc, exp_min)
             ELSE Dec(d.sign, kept, exp_min)

\* d * Decimal(1000) in the default context, d finite and non-zero.
MulThousand(d) == Fix(Dec(d.sign, d.int \o <<0, 0, 0>>, d.exp))

\* Decimal.quantize(q, rounding=ROUND_HALF_EVEN) of a finite non-zero d in
\* the default context: InvalidOperation when the result needs more than
\* DecimalPrec digits.
Quantize(d, q) ==
    LET adjusted == d.exp + Len(d.int) - 1
        ans      == Rescale(d, q.exp)
    IN  IF adjusted - q.exp + 1 > DecimalPrec
        THEN [exc |-> TRUE, val |-> d]
        ELSE IF Len(ans.int) > DecimalPrec
             THEN [exc |-> TRUE, val |-> d]
             ELSE [exc |-> FALSE, val |-> ans]

\* format(d, '08.0f'): d rounded to an integer with the context rounding
\* (ROUND_HALF_EVEN), zero-filled to a minimum width of 8, never cut.
FormatZeroFill(d, w) ==
    LET r == Rescale(d, 0).int
        s == [i \in 1..Len(r) |-> DigitChar(r[i])]
    IN  IF Len(s) >= w THEN s ELSE [i \in 1..(w - Len(s)) |-> "0"] \o s

---------------------------------------------------------------------------
(* Values *)

\* None, where a text (the optional symbol) is expected.
NoText == << "None" >>

\* None, where a Currency is expected.
NoCurrency == "None"

\* The Currency enumeration of bankroll/model/cash.py: members with a name.
Currencies == {"USD", "EUR", "GBP"}

\* Currency.name, as text.
CurrencyName(c) ==
    CASE c = "USD" -> << "U", "S", "D" >>
      [] c = "EUR" -> << "E", "U", "R" >>
      [] c = "GBP" -> << "G", "B", "P" >>

\* bool(currency): an enumeration member is true, None is false.
CurrencyTruth(c) == c # NoCurrency

\* OptionType.value
OptionTypeValue(t) == IF t = "PUT" THEN "P" ELSE "C"

Date(y, m, d) == [year |-> y, month |-> m, day |-> d]

TwoDigits(n) == << DigitChar((n \div 10) % 10), DigitChar(n % 10) >>

\* date.strftime('%y%m%d')
Strftime(d) == TwoDigits(d.year % 100) \o TwoDigits(d.month) \o TwoDigits(d.day)

multiplierQuantization == Dec(0, <<1>>, -1)

strikeQuantization == Dec(0, <<1>>, -3)

quantizeMultiplier(multiplier) == Quantize(multiplier, multiplierQuantization)

quantizeStrike(strike) == Quantize(strike, strikeQuantization)

---------------------------------------------------------------------------
(* Objects: a class and the instance dictionary *)

EmptyDict == [n \in {} |-> 0]

NoObject == [cls |-> "None", dict |-> EmptyDict]

Raised(exc) == [outcome |-> exc, obj |-> NoObject]

Built(cls, dict) == [outcome |-> "ok", obj |-> [cls |-> cls, dict |-> dict]]

ValueErrorSymbol == "ValueError: Expected non-empty symbol for instrument"
ValueErrorCurrency == "ValueError: Expected currency for instrument"
ValueErrorCUSIP == "ValueError: Expected symbol to be a bond CUSIP"
ValueErrorUnderlying == "ValueError: Expected non-empty underlying symbol for Option"
ValueErrorStrike == "ValueError: Expected positive strike price"
ValueErrorMultiplier == "ValueError: Expected positive multiplier"
ValueErrorForex == "ValueError: Forex pair must be composed of different currencies"
InvalidOperation == "decimal.InvalidOperation"
FrozenInstanceError == "FrozenInstanceError"
AttributeError == "AttributeError"

\* Instrument.__post_init__: "ok" or the error raised.
Instrument_post_init(symbol, currency) ==
    IF symbol = <<>> THEN ValueErrorSymbol
    ELSE IF ~CurrencyTruth(currency) THEN ValueErrorCurrency
    ELSE "ok"

\* The dataclass-generated __init__(symbol, currency) run on an instance of
\* class cls whose dictionary already holds own: the two fields are stored,
\* then __post_init__ runs.
Instrument_init(cls, own, symbol, currency) ==
    LET check == Instrument_post_init(symbol, currency)
    IN  IF check # "ok" THEN Raised(check)
        ELSE Built(cls, own @@ ("symbol" :> symbol) @@ ("currency" :> currency))

Stock_init(symbol, currency) == Instrument_init("Stock", EmptyDict, symbol, currency)

\* '$' of a Python regular expression: the end of the text, or the
\* position just before a line break that ends the text.
DollarAt(s, pos) == pos = Len(s) + 1 \/ (pos = Len(s) /\ s[pos] = "\n")

\* re.match(r'^[0-9]{3}[0-9A-Z]{5}[0-9]$', symbol) is not None
validBondSymbol(symbol) ==
    /\ Len(symbol) >= 9
    /\ \A i \in 1..3 : IsDigit(symbol[i])
    /\ \A i \in 4..8 : IsDigit(symbol[i]) \/ IsUpper(symbol[i])
    /\ IsDigit(symbol[9])
    /\ DollarAt(symbol, 10)

\* Bond_init with the validateSymbol flag ignored: the CUSIP check always runs.
Bond_init_AlwaysValidates(symbol, currency, validateSymbol) ==
    IF ~validBondSymbol(symbol)
    THEN Raised(ValueErrorCUSIP)
    ELSE Instrument_init("Bond", EmptyDict, symbol, currency)

\* Bond(symbol, currency, validateSymbol): the generated __init__ stores the
\* fields, then Bond.__post_init__ checks the CUSIP and calls the base check.
Bond_init(symbol, currency, validateSymbol) ==
    IF validateSymbol /\ ~validBondSymbol(symbol)
    THEN Raised(ValueErrorCUSIP)
    ELSE Instrument_init("Bond", EmptyDict, symbol, currency)

\* The OCC symbol Option.__init__ derives when no symbol is given.
DerivedSymbol(underlying, expiration, optionType, strike) ==
    FormatWidth(underlying, 6) \o Strftime(expiration)
        \o << OptionTypeValue(optionType) >>
        \o FormatZeroFill(MulThousand(strike), 8)

\* Option.__init__ (cls is "Option", or "FutureOption" calling it as super).
Option_init(cls, underlying, currency, optionType, expiration, strike, multiplier, symbol) ==
    IF underlying = <<>> THEN Raised(ValueErrorUnderlying)
    ELSE IF ~is_finite(strike) \/ DecLeZero(strike) THEN Raised(ValueErrorStrike)
    ELSE IF ~is_finite(multiplier) \/ DecLeZero(multiplier)
         THEN Raised(ValueErrorMultiplier)
    ELSE LET qs == quantizeStrike(strike)
             qm == quantizeMultiplier(multiplier)
             own == ("_underlying" :> underlying) @@ ("_optionType" :> optionType)
                    @@ ("_expiration" :> expiration) @@ ("_strike" :> qs.val)
                    @@ ("_multiplier" :> qm.val)
             sym == IF symbol = NoText
                    THEN DerivedSymbol(underlying, expiration, optionType, strike)
                    ELSE symbol
         IN  IF qs.exc \/ qm.exc THEN Raised(InvalidOperation)
             ELSE Instrument_init(cls, own, sym, currency)

FutureOption_init(symbol, underlying, currency, optionType, expiration, strike, multiplier) ==
    Option_init("FutureOption", underlying, currency, optionType, expiration,
                strike, multiplier, symbol)

Future_init(symbol, currency, multiplier, expiration) ==
    IF ~is_finite(multiplier) \/ DecLeZero(multiplier)
    THEN Raised(ValueErrorMultiplier)
    ELSE LET qm == quantizeMultiplier(multiplier)
             own == ("_multiplier" :> qm.val) @@ ("_expiration" :> expiration)
         IN  IF qm.exc THEN Raised(InvalidOperation)
             ELSE Instrument_init("Future", own, symbol, currency)

\* Forex_init with the two currency codes of the symbol in the wrong order.
Forex_init_SymbolSwapped(baseCurrency, quoteCurrency) ==
    IF baseCurrency = quoteCurrency THEN Raised(ValueErrorForex)
    ELSE Instrument_init("Forex", "_baseCurrency" :> baseCurrency,
                         CurrencyName(quoteCurrency) \o CurrencyName(baseCurrency),
                         quoteCurrency)

Forex_init(baseCurrency, quoteCurrency) ==
    IF baseCurrency = quoteCurrency THEN Raised(ValueErrorForex)
    ELSE Instrument_init("Forex", "_baseCurrency" :> baseCurrency,
                         CurrencyName(baseCurrency) \o CurrencyName(quoteCurrency),
                         quoteCurrency)

---------------------------------------------------------------------------
(* Comparison: the dataclass __eq__ and functools.total_ordering *)

\* The generated __eq__: the field tuples compared when both operands have
\* the same class, NotImplemented otherwise.
Dataclass_eq(a, b) ==
    IF a.cls = b.cls
    THEN [implemented |-> TRUE,
          value |-> << a.dict["symbol"], a.dict["currency"] >>
                    = << b.dict["symbol"], b.dict["currency"] >>]
    ELSE [implemented |-> FALSE, value |-> FALSE]

\* inst[i] == inst[j]: when both __eq__ calls give NotImplemented the
\* interpreter falls back to identity.
PyEq(i, j) ==
    LET r == Dataclass_eq(inst[i], inst[j])
    IN  IF r.implemented THEN r.value ELSE i = j

\* inst[i] != inst[j]: object.__ne__ inverts __eq__, identity as fallback.
PyNe(i, j) ==
    LET r == Dataclass_eq(inst[i], inst[j])
    IN  IF r.implemented THEN ~r.value ELSE i # j

\* Instrument.__lt__
Instrument_lt(a, b) == StrLess(a.dict["symbol"], b.dict["symbol"])

PyLt(i, j) == Instrument_lt(inst[i], inst[j])

\* total_ordering's _le_from_lt: (a < b) or a == b
PyLe(i, j) == PyLt(i, j) \/ PyEq(i, j)

\* total_ordering's _gt_from_lt: not (a < b) and a != b
PyGt(i, j) == ~PyLt(i, j) /\ PyNe(i, j)

\* total_ordering's _ge_from_lt: not (a < b)
PyGe(i, j) == ~PyLt(i, j)

---------------------------------------------------------------------------
(* Attributes *)

\* The read-only properties of each class.
Properties(cls) ==
    CASE cls \in {"Option", "FutureOption"} ->
            {"underlying", "optionType", "expiration", "strike", "multiplier"}
      [] cls = "Future" -> {"multiplier", "expiration"}
      [] cls = "Forex" -> {"quoteCurrency", "baseCurrency", "multiplier"}
      [] OTHER -> {"multiplier"}

\* The instance attribute a property reads ("" for Instrument.multiplier,
\* which returns Decimal(1) and reads nothing).
Backing(cls, name) ==
    CASE name = "quoteCurrency" -> "currency"
      [] name = "multiplier" /\ cls \notin {"Option", "FutureOption", "Future"} -> ""
      [] name = "underlying" -> "_underlying"
      [] name = "optionType" -> "_optionType"
      [] name = "expiration" -> "_expiration"
      [] name = "strike" -> "_strike"
      [] name = "multiplier" -> "_multiplier"
      [] name = "baseCurrency" -> "_baseCurrency"

\* What reading an accessor gives: {value}, or {} when it raises
\* AttributeError because the attribute it reads is gone.
Accessor(o, name) ==
    LET attr == IF name \in {"symbol", "currency"} THEN name
                ELSE Backing(o.cls, name)
    IN  IF attr = "" THEN {Dec(0, <<1>>, 0)}
        ELSE IF attr \in DOMAIN o.dict THEN {o.dict[attr]}
        ELSE {}

AccessorNames(cls) == {"symbol", "currency"} \cup Properties(cls)

Accessors(o) == [n \in AccessorNames(o.cls) |-> Accessor(o, n)]

\* The frozen dataclass's generated __setattr__ / __delattr__ refuse when
\* the instance's class is the decorated class itself or the name is a field.
FrozenRefuses(cls, name) ==
    cls \in {"Stock", "Bond"} \/ name \in {"symbol", "currency"}

\* setattr(o, name, value): the outcome and the object afterwards.
Instrument_setattr(o, name, value) ==
    IF FrozenRefuses(o.cls, name) THEN [outcome |-> FrozenInstanceError, obj |-> o]
    ELSE IF name \in Properties(o.cls) THEN [outcome |-> AttributeError, obj |-> o]
    ELSE [outcome |-> "ok",
          obj |-> [o EXCEPT !.dict =
                      [n \in DOMAIN o.dict \cup {name} |->
                          IF n = name THEN value ELSE o.dict[n]]]]

\* delattr(o, name)
Instrument_delattr(o, name) ==
    IF FrozenRefuses(o.cls, name) THEN [outcome |-> FrozenInstanceError, obj |-> o]
    ELSE IF name \in Properties(o.cls) \/ name \notin DOMAIN o.dict
         THEN [outcome |-> AttributeError, obj |-> o]
    ELSE [outcome |-> "ok",
          obj |-> [o EXCEPT !.dict = [n \in DOMAIN o.dict \ {name} |-> o.dict[n]]]]

---------------------------------------------------------------------------
(* Inputs *)

Text_X == << "X" >>
Text_Y == << "Y" >>
Text_A == << "A" >>
Text_AAPL == << "A", "A", "P", "L" >>
Text_ABCDEF == << "A", "B", "C", "D", "E", "F" >>
Text_ABCDEFG == << "A", "B", "C", "D", "E", "F", "G" >>
Text_CUSIP == << "0", "3", "7", "8", "3", "3", "1", "0", "0" >>

\* Longest run of zeros in the generated long strikes 1.0005 0...0 1.
MaxPad == 23

\* Largest exponent of the generated strikes 1E+n.
MaxExp == 25

\* Longest symbol made by repeating a digit.
MaxSymbolLen == 11

OptionTypes == {"PUT", "CALL"}

Dates == {Date(2021, 1, 15), Date(1999, 12, 31)}

Dec_1 == Dec(0, <<1>>, 0)
Dec_50 == Dec(0, <<5, 0>>, 0)
Dec_100 == Dec(0, <<1, 0, 0>>, 0)
Dec_2_5 == Dec(0, <<2, 5>>, -1)
Dec_150_00 == Dec(0, <<1, 5, 0, 0, 0>>, -2)

\* Not finite, or not positive.
BadDecimals ==
    { DecInfinity(0), DecInfinity(1), DecNaN,
      Dec(0, <<0>>, 0), Dec(1, <<0>>, 0), Dec(0, <<0>>, 3), Dec(1, <<1>>, 0),
      Dec(1, <<5>>, -4) }

\* Finite positive strikes: below the quantum, ties and near-ties at the
\* 4th decimal, carries, more than 8 integer digits of thousandths, and
\* coefficients at and beyond the context precision.
GoodStrikes ==
    { Dec(0, <<1>>, -4), Dec(0, <<4>>, -4), Dec(0, <<5>>, -4), Dec(0, <<6>>, -4),
      Dec(0, <<1>>, -3), Dec(0, <<1, 5>>, -4), Dec(0, <<5, 1>>, -5),
      Dec_1, Dec_2_5, Dec_150_00,
      Dec(0, <<1, 0, 0, 0, 5>>, -4), Dec(0, <<1, 0, 0, 1, 5>>, -4),
      Dec(0, <<1, 0, 0, 0, 4, 9>>, -5), Dec(0, <<1, 0, 0, 0, 5, 1>>, -5),
      Dec(0, <<9, 9, 9, 9, 9, 9, 9, 9, 5>>, -4),
      Dec(0, <<9, 9, 9, 9, 9, 9, 9, 9, 4>>, -4),
      Dec(0, <<1>>, 5), Dec(0, <<1, 2, 3, 4, 5, 6, 7, 8, 9, 5>>, -4),
      Dec(0, [i \in 1..(MaxExp + 4) |-> IF i = MaxExp + 4 THEN 5 ELSE 9], -4),
      Dec(0, [i \in 1..(MaxExp + 3) |-> IF i = MaxExp + 3 THEN 5 ELSE 9], -4) }
    \cup { Dec(0, <<1>>, e) : e \in (MaxExp - 2)..MaxExp }
    \cup { Dec(0, <<1, 0, 0, 0, 5>> \o Zeros(k) \o <<1>>, 0 - (5 + k)) :
             k \in (MaxPad - 2)..MaxPad }
    \cup { Dec(0, <<1, 0, 0, 1, 5>> \o Zeros(k) \o <<1>>, 0 - (5 + k)) :
             k \in (MaxPad - 2)..MaxPad }

Strikes == BadDecimals \cup GoodStrikes

Multipliers ==
    { Dec_100, Dec(0, <<4>>, -2), Dec(0, <<5>>, -2), Dec(0, <<1, 0, 0, 0, 5>>, -2),
      Dec(0, <<1>>, MaxExp + 2), Dec(0, <<0>>, 0), DecNaN }

Underlyings == { <<>>, Text_A, Text_AAPL, Text_ABCDEF, Text_ABCDEFG }

\* The characters put into each position of a valid CUSIP, and after it.
BondChars == { "0", "9", "A", "Z", "a", " ", "\n" }

BondSymbols ==
    { [Text_CUSIP EXCEPT ![p] = c] : p \in 1..9, c \in BondChars }
    \cup { Text_CUSIP \o <<c>> : c \in BondChars }
    \cup { <<c>> \o Text_CUSIP : c \in BondChars }
    \cup { Text_CUSIP \o << "\n", "\n" >>, Text_X }
    \cup { [i \in 1..n |-> "0"] : n \in 0..MaxSymbolLen }

---------------------------------------------------------------------------
(* State: inst[s] is the instrument bound to the caller's variable s
   (NoObject before any is bound); last is the latest call, with its
   arguments and outcome ("ok" or the exception raised). *)

Slots == {1, 2}

Init ==
    /\ inst = [s \in Slots |-> NoObject]
    /\ last = [op |-> "none", slot |-> 0, args |-> <<>>, outcome |-> "none"]

\* x_slot = <constructor call>: the variable is bound when the constructor
\* returns and keeps its value when it raises.
Bound(slot, r) == IF r.outcome = "ok" THEN [inst EXCEPT ![slot] = r.obj] ELSE inst

Called(op, slot, args, r) ==
    [op |-> op, slot |-> slot, args |-> args, outcome |-> r.outcome]

NewStock(slot, symbol, currency) ==
    LET r == Stock_init(symbol, currency)
    IN  /\ inst' = Bound(slot, r)
        /\ last' = Called("Stock", slot, [symbol |-> symbol, currency |-> currency], r)

NewBond(slot, symbol, currency, validateSymbol) ==
    LET r == Bond_init(symbol, currency, validateSymbol)
    IN  /\ inst' = Bound(slot, r)
        /\ last' = Called("Bond", slot,
                          [symbol |-> symbol, currency |-> currency,
                           validateSymbol |-> validateSymbol], r)

NewOption(slot, underlying, currency, optionType, expiration, strike, multiplier, symbol) ==
    LET r == Option_init("Option", underlying, currency, optionType, expiration,
                         strike, multiplier, symbol)
    IN  /\ inst' = Bound(slot, r)
        /\ last' = Called("Option", slot,
                          [underlying |-> underlying, currency |-> currency,
                           optionType |-> optionType, expiration |-> expiration,
                           strike |-> strike, multiplier |-> multiplier,
                           symbol |-> symbol], r)

NewFutureOption(slot, symbol, underlying, currency, optionType, expiration, strike, multiplier) ==
    LET r == FutureOption_init(symbol, underlying, currency, optionType,
                               expiration, strike, multiplier)
    IN  /\ inst' = Bound(slot, r)
        /\ last' = Called("FutureOption", slot,
                          [underlying |-> underlying, currency |-> currency,
                           optionType |-> optionType, expiration |-> expiration,
                           strike |-> strike, multiplier |-> multiplier,
                           symbol |-> symbol], r)

NewFuture(slot, symbol, currency, multiplier, expiration) ==
    LET r == Future_init(symbol, currency, multiplier, expiration)
    IN  /\ inst' = Bound(slot, r)
        /\ last' = Called("Future", slot,
                          [symbol |-> symbol, currency |-> currency,
                           multiplier |-> multiplier, expiration |-> expiration], r)

NewForex(slot, baseCurrency, quoteCurrency) ==
    LET r == Forex_init(baseCurrency, quoteCurrency)
    IN  /\ inst' = Bound(slot, r)
        /\ last' = Called("Forex", slot,
                          [baseCurrency |-> baseCurrency,
                           quoteCurrency |-> quoteCurrency], r)

\* setattr(x_slot, name, value) on a bound instrument.
SetAttr(slot, name, value) ==
    /\ inst[slot] # NoObject
    /\ LET r == Instrument_setattr(inst[slot], name, value)
       IN  /\ inst' = [inst EXCEPT ![slot] = r.obj]
           /\ last' = [op |-> "setattr", slot |-> slot,
                       args |-> [name |-> name, value |-> value],
                       outcome |-> r.outcome]

\* delattr(x_slot, name) on a bound instrument.
DelAttr(slot, name) ==
    /\ inst[slot] # NoObject
    /\ LET r == Instrument_delattr(inst[slot], name)
       IN  /\ inst' = [inst EXCEPT ![slot] = r.obj]
           /\ last' = [op |-> "delattr", slot |-> slot,
                       args |-> [name |-> name], outcome |-> r.outcome]

---------------------------------------------------------------------------
(* Spec: two variables, every constructor, small inputs; for the claims
   about == and the ordering of two instruments, and about Forex. *)

PairStrikes == { Dec_1, Dec_2_5 }

PairMultipliers == { Dec_1, Dec_50 }

Next ==
    \E slot \in Slots :
        \/ \E symbol \in { <<>>, Text_X, Text_Y }, currency \in {"USD", "EUR"} :
              NewStock(slot, symbol, currency)
        \/ \E symbol \in {Text_X, Text_CUSIP}, validateSymbol \in BOOLEAN :
              NewBond(slot, symbol, "USD", validateSymbol)
        \/ \E optionType \in OptionTypes, strike \in PairStrikes,
              symbol \in {NoText, Text_X} :
              NewOption(slot, Text_X, "USD", optionType, Date(2021, 1, 15),
                        strike, Dec_100, symbol)
        \/ \E strike \in PairStrikes :
              NewFutureOption(slot, Text_X, Text_X, "USD", "PUT",
                              Date(2021, 1, 15), strike, Dec_100)
        \/ \E currency \in {"USD", "EUR"}, multiplier \in PairMultipliers,
              expiration \in Dates :
              NewFuture(slot, Text_X, currency, multiplier, expiration)
        \/ \E baseCurrency \in Currencies, quoteCurrency \in Currencies :
              NewForex(slot, baseCurrency, quoteCurrency)

Spec == Init /\ [][Next]_vars

---------------------------------------------------------------------------
(* SpecOption: one call of a constructor that takes decimals, its arguments
   drawn by the initial state from the strikes, multipliers and underlyings
   above. *)

Pending(op, args) == [op |-> op, slot |-> 1, args |-> args, outcome |-> "pending"]

OptionArgs(underlying, currency, optionType, expiration, strike, multiplier, symbol) ==
    [underlying |-> underlying, currency |-> currency, optionType |-> optionType,
     expiration |-> expiration, strike |-> strike, multiplier |-> multiplier,
     symbol |-> symbol]

OptionCalls ==
    { Pending("Option", OptionArgs(u, "USD", t, e, k, Dec_100, sym)) :
        u \in Underlyings, t \in OptionTypes, e \in Dates, k \in Strikes,
        sym \in {NoText, Text_X} }
    \cup
    { Pending("Option", OptionArgs(Text_AAPL, c, "CALL", Date(2021, 1, 15), k, m,
                                   NoText)) :
        c \in {"USD", NoCurrency}, k \in {Dec_150_00, Dec(0, <<4>>, -4)},
        m \in Multipliers }

FutureOptionCalls ==
    { Pending("FutureOption",
              OptionArgs(Text_AAPL, "USD", "PUT", Date(2021, 1, 15), k, m, sym)) :
        k \in {Dec_150_00, Dec(0, <<4>>, -4)}, m \in Multipliers,
        sym \in {<<>>, Text_X} }

FutureCalls ==
    { Pending("Future", [symbol |-> sym, currency |-> "USD", multiplier |-> m,
                         expiration |-> Date(2021, 1, 15)]) :
        sym \in {<<>>, Text_X}, m \in Multipliers \cup BadDecimals }

InitOption ==
    /\ inst = [s \in Slots |-> NoObject]
    /\ last \in OptionCalls \cup FutureOptionCalls \cup FutureCalls

CallOption ==
    /\ last.outcome = "pending" /\ last.op = "Option"
    /\ NewOption(last.slot, last.args.underlying, last.args.currency,
                 last.args.optionType, last.args.expiration, last.args.strike,
                 last.args.multiplier, last.args.symbol)

CallFutureOption ==
    /\ last.outcome = "pending" /\ last.op = "FutureOption"
    /\ NewFutureOption(last.slot, last.args.symbol, last.args.underlying,
                       last.args.currency, last.args.optionType,
                       last.args.expiration, last.args.strike,
                       last.args.multiplier)

CallFuture ==
    /\ last.outcome = "pending" /\ last.op = "Future"
    /\ NewFuture(last.slot, last.args.symbol, last.args.currency,
                 last.args.multiplier, last.args.expiration)

NextOption == CallOption \/ CallFutureOption \/ CallFuture

SpecOption == InitOption /\ [][NextOption]_vars

---------------------------------------------------------------------------
(* SpecBond: one call of Bond, its arguments drawn by the initial state
   from the symbols above. *)

BondCalls ==
    { Pending("Bond", [symbol |-> sym, currency |-> c, validateSymbol |-> v]) :
        sym \in BondSymbols, c \in {"USD", "EUR", NoCurrency}, v \in BOOLEAN }

InitBond ==
    /\ inst = [s \in Slots |-> NoObject]
    /\ last \in BondCalls

CallBond ==
    /\ last.outcome = "pending" /\ last.op = "Bond"
    /\ NewBond(last.slot, last.args.symbol, last.args.currency,
               last.args.validateSymbol)

NextBond == CallBond

SpecBond == InitBond /\ [][NextBond]_vars

---------------------------------------------------------------------------
(* SpecFrozen: one variable, every kind of instrument, and assignments to
   and deletions of its attributes. *)

\* The instance attributes each class's __init__ sets besides the fields.
PrivateAttrs(cls) ==
    CASE cls \in {"Option", "FutureOption"} ->
            {"_underlying", "_optionType", "_expiration", "_strike", "_multiplier"}
      [] cls = "Future" -> {"_multiplier", "_expiration"}
      [] cls = "Forex" -> {"_baseCurrency"}
      [] OTHER -> {}

\* The attributes assigned to and deleted: the fields, the properties and
\* the attributes behind them.
AttrNames(cls) == {"symbol", "currency"} \cup Properties(cls) \cup PrivateAttrs(cls)

\* The value assigned to each attribute: one of the attribute's own type.
AttrValue(name) ==
    CASE name \in {"symbol", "underlying", "_underlying"} -> Text_Y
      [] name \in {"currency", "quoteCurrency", "baseCurrency", "_baseCurrency"} -> "GBP"
      [] name \in {"optionType", "_optionType"} -> "CALL"
      [] name \in {"expiration", "_expiration"} -> Date(1999, 12, 31)
      [] name \in {"strike", "_strike", "multiplier", "_multiplier"} -> Dec_50

NextFrozen ==
    \/ \E symbol \in {<<>>, Text_X} : NewStock(1, symbol, "USD")
    \/ \E validateSymbol \in BOOLEAN : NewBond(1, Text_CUSIP, "USD", validateSymbol)
    \/ \E symbol \in {NoText, Text_X} :
          NewOption(1, Text_X, "USD", "PUT", Date(2021, 1, 15), Dec_2_5, Dec_100,
                    symbol)
    \/ NewFutureOption(1, Text_X, Text_X, "USD", "PUT", Date(2021, 1, 15),
                       Dec_2_5, Dec_100)
    \/ NewFuture(1, Text_X, "USD", Dec_1, Date(2021, 1, 15))
    \/ \E quoteCurrency \in {"USD", "EUR"} : NewForex(1, "USD", quoteCurrency)
    \/ \E name \in AttrNames(inst[1].cls) : SetAttr(1, name, AttrValue(name))
    \/ \E name \in AttrNames(inst[1].cls) : DelAttr(1, name)

SpecFrozen == Init /\ [][NextFrozen]_vars

---------------------------------------------------------------------------
(* Properties *)

IsBound(s) == inst[s] # NoObject

\* d is finite and d > 0.
DecPositive(d) == is_finite(d) /\ d.sign = 0 /\ ~DecIsZero(d)

\* The fields that make up each kind of instrument.
FieldsOf(cls) ==
    CASE cls \in {"Option", "FutureOption"} ->
            {"symbol", "currency", "underlying", "optionType", "expiration",
             "strike", "multiplier"}
      [] cls = "Future" -> {"symbol", "currency", "multiplier", "expiration"}
      [] cls = "Forex" -> {"baseCurrency", "quoteCurrency"}
      [] OTHER -> {"symbol", "currency"}

AllFieldsEqual(a, b) ==
    \A n \in FieldsOf(a.cls) : Accessor(a, n) = Accessor(b, n)

\* C1: two instruments of the same kind are == exactly when every field is
\* equal, and instruments of different kinds are never ==.
C1_StructuralEquality ==
    \A i \in Slots, j \in Slots :
        (IsBound(i) /\ IsBound(j)) =>
            IF inst[i].cls = inst[j].cls
            THEN PyEq(i, j) <=> AllFieldsEqual(inst[i], inst[j])
            ELSE ~PyEq(i, j)

\* C2: <, <=, >, >= are a total order by symbol: one of a <= b, b <= a
\* holds; a > b and b > a never both hold; a <= b exactly when not a > b;
\* instruments sharing a symbol are neither less nor greater than each other.
C2_TotalOrderBySymbol ==
    \A i \in Slots, j \in Slots :
        (IsBound(i) /\ IsBound(j)) =>
            /\ PyLe(i, j) \/ PyLe(j, i)
            /\ ~(PyGt(i, j) /\ PyGt(j, i))
            /\ PyLe(i, j) <=> ~PyGt(i, j)
            /\ (inst[i].dict["symbol"] = inst[j].dict["symbol"]) =>
                   (~PyLt(i, j) /\ ~PyGt(i, j) /\ ~PyLt(j, i) /\ ~PyGt(j, i))

\* C3: the strike and multiplier accessors of every constructed Option,
\* FutureOption and Future return finite values strictly greater than 0.
C3_StoredValuesPositive ==
    \A s \in Slots :
        /\ inst[s].cls \in {"Option", "FutureOption"} =>
              \A n \in {"strike", "multiplier"} :
                  \A d \in Accessor(inst[s], n) : DecPositive(d)
        /\ inst[s].cls = "Future" =>
              \A d \in Accessor(inst[s], "multiplier") : DecPositive(d)

\* The latest call was Option(...) without a symbol, and it returned.
DerivedOption ==
    /\ last.op = "Option"
    /\ last.outcome = "ok"
    /\ last.args.symbol = NoText

DigitValue(c) == (CHOOSE n \in 0..9 : DigitChar(n) = c)

AllDigits(s) == \A i \in 1..Len(s) : IsDigit(s[i])

\* C4: a derived symbol has exactly 21 characters: the underlying padded
\* or cut to 6, the expiration as YYMMDD, P or C, and 8 strike digits.
C4_DerivedSymbolLayout ==
    DerivedOption =>
        LET sym == inst[last.slot].dict["symbol"]
            u   == last.args.underlying
            e   == last.args.expiration
        IN  /\ Len(sym) = 21
            /\ \A i \in 1..6 : sym[i] = (IF i <= Len(u) THEN u[i] ELSE " ")
            /\ AllDigits(SubSeq(sym, 7, 12))
            /\ 10 * DigitValue(sym[7]) + DigitValue(sym[8]) = e.year % 100
            /\ 10 * DigitValue(sym[9]) + DigitValue(sym[10]) = e.month
            /\ 10 * DigitValue(sym[11]) + DigitValue(sym[12]) = e.day
            /\ sym[13] = (IF last.args.optionType = "PUT" THEN "P" ELSE "C")
            /\ AllDigits(SubSeq(sym, 14, 21))

RECURSIVE StripZeros(_)
StripZeros(s) ==
    IF Len(s) > 1 /\ s[1] = 0 THEN StripZeros(Tail(s)) ELSE s

RECURSIVE IntOf(_)
IntOf(s) == IF s = <<>> THEN 0 ELSE 10 * IntOf(SubSeq(s, 1, Len(s) - 1)) + s[Len(s)]

RECURSIVE Pow10(_)
Pow10(n) == IF n = 0 THEN 1 ELSE 10 * Pow10(n - 1)

\* The strike's value fits in an integer count of 0.00001.
Countable(d) == d.exp >= -5 /\ Len(d.int) + d.exp + 5 <= 9

\* q is d rounded half-to-even to a multiple of 0.001 (d Countable).
IsRoundedToThousandths(q, d) ==
    LET v    == IntOf(d.int) * Pow10(d.exp + 5)
        diff == v - 100 * IntOf(q.int)
    IN  /\ q.special = "finite" /\ q.sign = 0 /\ q.exp = -3
        /\ diff >= -50 /\ diff <= 50
        /\ (diff = 50 \/ diff = -50) => IntOf(q.int) % 2 = 0

\* C7: with the other arguments valid, Option(...) raises the strike error
\* and binds nothing for every strike that is not finite or is <= 0, and
\* for every finite strike > 0 it returns an Option whose strike is the
\* argument rounded half-to-even to 3 decimal places.
C7_StrikeValidatedAndRounded ==
    ( /\ last.op = "Option"
      /\ last.outcome # "pending"
      /\ last.args.underlying # <<>>
      /\ last.args.currency \in Currencies
      /\ last.args.multiplier = Dec_100 ) =>
        IF ~DecPositive(last.args.strike)
        THEN last.outcome = ValueErrorStrike /\ ~IsBound(last.slot)
        ELSE /\ last.outcome = "ok"
             /\ inst[last.slot].cls = "Option"
             /\ LET q == inst[last.slot].dict["_strike"]
                IN  /\ q.exp = -3
                    /\ Countable(last.args.strike) =>
                           IsRoundedToThousandths(q, last.args.strike)

\* The digits of c as numbers.
DigitValues(s) == [i \in 1..Len(s) |-> DigitValue(s[i])]

\* C10: the integer written in the strike part of a derived symbol is the
\* stored (quantized) strike multiplied by 1000.
C10_SymbolEncodesStoredStrike ==
    DerivedOption =>
        LET sym   == inst[last.slot].dict["symbol"]
            q     == inst[last.slot].dict["_strike"]
            first == (IF Len(last.args.underlying) > 6
                      THEN Len(last.args.underlying) ELSE 6) + 8
            part  == SubSeq(sym, first, Len(sym))
        IN  /\ q.exp = -3
            /\ AllDigits(part)
            /\ StripZeros(DigitValues(part)) = StripZeros(q.int)

\* The latest call was Bond(...), and it has returned or raised.
BondCalled == last.op = "Bond" /\ last.outcome # "pending"

\* What C5 says of a Bond(...) call: with validation the CUSIP error is
\* raised and nothing is bound; without it, a Bond with the symbol is bound.
RejectedUnlessBypassed ==
    IF last.args.validateSymbol
    THEN last.outcome = ValueErrorCUSIP /\ ~IsBound(last.slot)
    ELSE /\ last.outcome = "ok"
         /\ inst[last.slot] =
                [cls |-> "Bond",
                 dict |-> [symbol |-> last.args.symbol,
                           currency |-> last.args.currency]]

UpperLetters ==
    { "A", "B", "C", "D", "E", "F", "G", "H", "I", "J", "K", "L", "M", "N", "O",
      "P", "Q", "R", "S", "T", "U", "V", "W", "X", "Y", "Z" }

\* Exactly 9 characters: 3 digits, 5 digits or upper-case letters, 1 digit.
IsCUSIP9(s) ==
    /\ Len(s) = 9
    /\ \A i \in 1..3 : IsDigit(s[i])
    /\ \A i \in 4..8 : IsDigit(s[i]) \/ s[i] \in UpperLetters
    /\ IsDigit(s[9])

\* C6: with validation (and a valid currency) Bond(...) returns a Bond only
\* for a symbol of exactly 9 characters (3 digits, 5 digits or upper-case
\* letters, 1 digit); any other symbol is rejected with the CUSIP error.
C6_ValidatedBondIsCUSIP ==
    (BondCalled /\ last.args.validateSymbol /\ last.args.currency \in Currencies) =>
        IF IsCUSIP9(last.args.symbol)
        THEN last.outcome = "ok" /\ IsCUSIP9(inst[last.slot].dict["symbol"])
        ELSE last.outcome = ValueErrorCUSIP /\ ~IsBound(last.slot)

\* C8: every assignment to and deletion of an attribute of a constructed
\* instrument fails, and leaves what every accessor returns unchanged.
C8_NeverMutated ==
    [][ last'.op \in {"setattr", "delattr"} =>
            /\ last'.outcome # "ok"
            /\ Accessors(inst'[last'.slot]) = Accessors(inst[last'.slot]) ]_vars

\* C9: Forex(base, quote) raises when base = quote; otherwise it returns a
\* Forex whose symbol is the base code followed by the quote code, whose
\* quoteCurrency and currency are quote and whose baseCurrency is base.
C9_ForexConstruction ==
    last.op = "Forex" =>
        IF last.args.baseCurrency = last.args.quoteCurrency
        THEN last.outcome = ValueErrorForex
        ELSE /\ last.outcome = "ok"
             /\ LET o == inst[last.slot]
                IN  /\ o.cls = "Forex"
                    /\ Accessor(o, "symbol") =
                         { CurrencyName(last.args.baseCurrency)
                             \o CurrencyName(last.args.quoteCurrency) }
                    /\ Accessor(o, "quoteCurrency") = {last.args.quoteCurrency}
                    /\ Accessor(o, "currency") = {last.args.quoteCurrency}
                    /\ Accessor(o, "baseCurrency") = {last.args.baseCurrency}

\* Forex(USD, EUR) returned the instrument USDEUR.
C9_Witness ==
    /\ last.op = "Forex"
    /\ last.outcome = "ok"
    /\ last.args.baseCurrency = "USD"
    /\ last.args.quoteCurrency = "EUR"
    /\ inst[last.slot].dict["symbol"] = << "U", "S", "D", "E", "U", "R" >>

=============================================================================
